---- MODULE Spec2Model ----
(***************************************************************************)
(* Model of rate_limiter.py: a reverse proxy that applies a per-client-IP  *)
(* sliding-log rate limit (CustomRequestHandler._is_within_rate_limit)     *)
(* before forwarding a GET request upstream (CustomRequestHandler.do_GET). *)
(*                                                                         *)
(* Time.  time.time() values are modelled as integer ticks, TicksPerSec of *)
(* them to the second, so the test "current_time - t < 1.0" of the source  *)
(* is "current_time - t < TicksPerSec".  For doubles of the magnitude of   *)
(* time.time() the subtraction is exact, so no rounding is lost by this.   *)
(*                                                                         *)
(* Requests are handled at non-decreasing readings of the clock.           *)
(*                                                                         *)
(* Limit.  rate_limit_per_sec is a real number; it is modelled as a number *)
(* of LimitDen-ths, so "len(window) >= rate_limit_per_sec" of the source   *)
(* is "Len(window) * LimitDen >= rate_limit_per_sec".                      *)
(***************************************************************************)
EXTENDS Integers, Sequences, FiniteSets, TLC

\* ---------------------------------------------------------------- bounds
TicksPerSec == 3
MaxTime == 5
LimitDen == 2
MaxLimit == 5
MaxReqs == 4
NWorkers == 2

Keys == {"1.2.3.4", "5.6.7.8"}
Time == 0..MaxTime
Limits == 0..MaxLimit
Workers == 1..NWorkers

\* ------------------------------------------------------------ arithmetic
Floor(limit) == limit \div LimitDen
IsIntegral(limit) == limit % LimitDen = 0

RECURSIVE Count(_, _)
\* number of positions of seq whose element is in set
Count(seq, set) ==
  IF seq = << >> THEN 0
  ELSE (IF Head(seq) \in set THEN 1 ELSE 0) + Count(Tail(seq), set)

\* ------------------------------------------------- the rate-limit engine
\* mutant: one list shared by every client
CacheGet_AnyKey(cache, client_ip) ==
  IF DOMAIN cache = {} THEN << >>
  ELSE cache[CHOOSE k \in DOMAIN cache : TRUE]

\* rate_limit_cache = defaultdict(list): reading a missing key yields []
CacheGet(cache, client_ip) ==
  IF client_ip \in DOMAIN cache THEN cache[client_ip] ELSE << >>

\* mutant: an entry whose list is empty is removed
CacheSet_DropEmpty(cache, client_ip, value) ==
  IF value = << >>
  THEN [k \in (DOMAIN cache) \ {client_ip} |-> cache[k]]
  ELSE [k \in (DOMAIN cache) \cup {client_ip} |->
          IF k = client_ip THEN value ELSE cache[k]]

\* cache[client_ip] = value (creates the entry when it is missing)
CacheSet(cache, client_ip, value) ==
  [k \in (DOMAIN cache) \cup {client_ip} |->
     IF k = client_ip THEN value ELSE cache[k]]

\* mutant: a timestamp exactly one second old is kept
Fresh_Inclusive(t, current_time) == current_time - t <= TicksPerSec

\* the timestamp t is still inside the trailing window at current_time
Fresh(t, current_time) == current_time - t < TicksPerSec

\* mutant: the prune is left out
Prune_Nothing(window, current_time) == window

\* [t for t in window if current_time - t < 1.0]
Prune(window, current_time) ==
  SelectSeq(window, LAMBDA t : Fresh(t, current_time))

\* mutant: > in place of >=
ExceedsLimit_Strict(window, limit) == Len(window) * LimitDen > limit

\* len(window) >= rate_limit_per_sec
ExceedsLimit(window, limit) == Len(window) * LimitDen >= limit

\* mutant: now is appended before the test
DeniedWindow_Recorded(pruned, current_time) == Append(pruned, current_time)

\* what a denied check leaves in the window: the pruned list, now not added
DeniedWindow(pruned, current_time) == pruned

\* _is_within_rate_limit as one atomic call: the cache after it, its result
IsWithinRateLimit(cache, client_ip, current_time, limit) ==
  LET pruned == Prune(CacheGet(cache, client_ip), current_time)
  IN IF ExceedsLimit(pruned, limit)
     THEN [cache |-> CacheSet(cache, client_ip,
                              DeniedWindow(pruned, current_time)),
           result |-> FALSE]
     ELSE [cache |-> CacheSet(cache, client_ip,
                              Append(pruned, current_time)),
           result |-> TRUE]

\* ------------------------------------------------- the forwarding pipeline
\* request targets (self.path), as sequences of characters
PathPlain == <<"/", "a">>
PathBadNetloc == <<"h", ":", "/", "/", "[">>
Paths == {PathPlain, PathBadNetloc}
\* GET /a?x=1&y=&x=2: a repeated name and an empty value
PathQuery ==
  <<"/", "a", "?", "x", "=", "1", "&", "y", "=", "&", "x", "=", "2">>
Targets == Paths \cup {PathQuery}

SchemeChars == {"h"}
NetlocDelims == {"/", "?", "#"}

\* index of the first element of seq that is in set, Len(seq) + 1 if none
FirstIn(seq, set) ==
  LET hits == {i \in 1..Len(seq) : seq[i] \in set}
  IN IF hits = {} THEN Len(seq) + 1
     ELSE CHOOSE i \in hits : \A j \in hits : i <= j

\* urlsplit: the part of the target after a leading "scheme:"
AfterScheme(path) ==
  LET c == FirstIn(path, {":"})
  IN IF c > 1 /\ c <= Len(path) /\ (\A i \in 1..(c - 1) : path[i] \in SchemeChars)
     THEN SubSeq(path, c + 1, Len(path))
     ELSE path

\* urlsplit: the netloc, present only after a leading "//"
Netloc(path) ==
  LET rest == AfterScheme(path)
  IN IF Len(rest) >= 2 /\ rest[1] = "/" /\ rest[2] = "/"
     THEN LET body == SubSeq(rest, 3, Len(rest))
          IN SubSeq(body, 1, FirstIn(body, NetlocDelims) - 1)
     ELSE << >>

\* c in seq
HasChar(seq, c) == \E i \in 1..Len(seq) : seq[i] = c

\* urlparse(self.path) raises ValueError("Invalid IPv6 URL"): the netloc
\* holds one of "[" and "]" and not the other
UrlparseRaises(path) ==
  HasChar(Netloc(path), "[") # HasChar(Netloc(path), "]")

\* the request targets on which urlparse raises
RaisingPaths == {path \in Targets : UrlparseRaises(path)}

\* urlsplit: what follows the scheme and the netloc, the fragment cut off
AfterNetloc(path) ==
  LET rest == AfterScheme(path)
  IN IF Len(rest) >= 2 /\ rest[1] = "/" /\ rest[2] = "/"
     THEN SubSeq(rest, 3 + Len(Netloc(path)), FirstIn(rest, {"#"}) - 1)
     ELSE SubSeq(rest, 1, FirstIn(rest, {"#"}) - 1)

\* urlparse(self.path).path (the alphabet has no ";", so no params part)
UrlPath(path) ==
  SubSeq(AfterNetloc(path), 1, FirstIn(AfterNetloc(path), {"?"}) - 1)

\* urlparse(self.path).query
UrlQuery(path) ==
  SubSeq(AfterNetloc(path), FirstIn(AfterNetloc(path), {"?"}) + 1,
         Len(AfterNetloc(path)))

RECURSIVE SplitOn(_, _)
\* seq.split(sep)
SplitOn(seq, sep) ==
  IF FirstIn(seq, {sep}) > Len(seq) THEN <<seq>>
  ELSE <<SubSeq(seq, 1, FirstIn(seq, {sep}) - 1)>>
       \o SplitOn(SubSeq(seq, FirstIn(seq, {sep}) + 1, Len(seq)), sep)

\* name_value.split('=', 1): the name and the value of a piece with an "="
PieceName(piece) == SubSeq(piece, 1, FirstIn(piece, {"="}) - 1)
PieceValue(piece) == SubSeq(piece, FirstIn(piece, {"="}) + 1, Len(piece))

\* parse_qsl keeps a piece only if it has an "=" and a value that is not
\* empty (keep_blank_values is left at its default, False)
KeptPiece(piece) ==
  /\ HasChar(piece, "=")
  /\ Len(PieceValue(piece)) > 0

\* parse_qsl(query): the (name, value) pairs kept, in order
ParseQsl(query) ==
  IF query = << >> THEN << >>
  ELSE LET kept == SelectSeq(SplitOn(query, "&"), KeptPiece)
       IN [i \in 1..Len(kept) |-> <<PieceName(kept[i]), PieceValue(kept[i])>>]

RECURSIVE GroupByName(_)
\* a dict built from (name, value) pairs: the names in order of their first
\* pair, each with the list of its values in order
GroupByName(pairs) ==
  IF pairs = << >> THEN << >>
  ELSE <<[name |-> pairs[1][1],
          values |-> [i \in 1..Len(SelectSeq(pairs,
                                    LAMBDA q : q[1] = pairs[1][1])) |->
                        SelectSeq(pairs, LAMBDA q : q[1] = pairs[1][1])[i][2]]]>>
       \o GroupByName(SelectSeq(pairs, LAMBDA q : q[1] # pairs[1][1]))

RECURSIVE Flatten(_)
\* requests encodes a dict of lists as one (name, value) pair per value
Flatten(groups) ==
  IF groups = << >> THEN << >>
  ELSE [i \in 1..Len(groups[1].values) |->
          <<groups[1].name, groups[1].values[i]>>]
       \o Flatten(Tail(groups))

\* parse_qs(parsed_url.query), as sent by requests.get(..., params=...)
ParamsSent(query) == Flatten(GroupByName(ParseQsl(query)))

RemoteDestination == "http://example.com"
UpstreamTimeout == 5

\* requests.get(remote_url, params=query_params, timeout=5)
UpstreamCall(path) ==
  [url |-> <<RemoteDestination>> \o UrlPath(path),
   params |-> ParamsSent(UrlQuery(path)),
   timeout |-> UpstreamTimeout]

\* the upstream call of every target on which urlparse does not raise
CallTable == [path \in Targets \ RaisingPaths |-> UpstreamCall(path)]

\* what requests.get(remote_url, params=..., timeout=5) can meet: the
\* upstream answers (status, header lines and body as sent on the wire) ...
UpstreamResponses ==
  { [kind |-> "response", status |-> 200,
     headers |-> << <<"Content-Type", "text/plain">> >>, body |-> "hello"],
    [kind |-> "response", status |-> 404, headers |-> << >>, body |-> "" ] }
\* ... answers with a repeated header name, with a compressed body ...
WireResponses ==
  UpstreamResponses \cup
  { [kind |-> "response", status |-> 200,
     headers |-> << <<"Set-Cookie", "a=1">>, <<"Set-Cookie", "b=2">> >>,
     body |-> "hello"],
    [kind |-> "response", status |-> 200,
     headers |-> << <<"Content-Encoding", "gzip">> >>,
     body |-> "gzip(hello)"] }
\* ... or the call fails
UpstreamFailures ==
  { [kind |-> "RequestException", desc |-> "ConnectionError"],
    [kind |-> "RequestException", desc |-> "Timeout"] }
UpstreamOutcomes == UpstreamResponses \cup UpstreamFailures

RateLimitBody == "Rate limit exceeded. Please try again later."
ErrorPrefix == "Error forwarding request: "

\* send_response(429); end_headers(); wfile.write(...)
DeniedResponse ==
  [status |-> 429, headers |-> << >>, body |-> <<RateLimitBody>>]

RECURSIVE JoinValues(_)
\* ", ".join(values)
JoinValues(values) ==
  IF Len(values) = 1 THEN values[1]
  ELSE values[1] \o ", " \o JoinValues(Tail(values))

\* response.headers.items(): the headers are a dict, one item per name,
\* the values of a repeated name joined by ", "
HeaderItems(headers) ==
  [i \in 1..Len(GroupByName(headers)) |->
     <<GroupByName(headers)[i].name,
       JoinValues(GroupByName(headers)[i].values)>>]

\* the decoding of a gzip body
Gunzip(body) == IF body = "gzip(hello)" THEN "hello" ELSE body

\* response.content: the body, decoded when it has a Content-Encoding
Content(up) ==
  IF \E i \in 1..Len(up.headers) : up.headers[i] = <<"Content-Encoding", "gzip">>
  THEN Gunzip(up.body)
  ELSE up.body

\* send_response(status_code); send_header(...)*; end_headers(); write(content)
\* (headers lists the headers the handler sends by send_header)
RelayedResponse(up) ==
  [status |-> up.status, headers |-> HeaderItems(up.headers),
   body |-> <<Content(up)>>]

\* send_response(500); end_headers(); write(f"Error forwarding request: {e}")
ErrorResponse(up) ==
  [status |-> 500, headers |-> << >>, body |-> <<ErrorPrefix, up.desc>>]

\* mutant: the except clause catches connection errors only
Caught_ConnectionOnly(up) ==
  up.kind = "RequestException" /\ up.desc = "ConnectionError"

\* the except clause catches requests.RequestException only
Caught(up) == up.kind = "RequestException"

\* no requests.get call was made for the request
NoUpstream == [kind |-> "none"]

\* lines 70-80, requests.get(remote_url, params=query_params, timeout=5)
\* and what the handler does with its outcome:
\*   sent     the responses written to the client, in order
\*   calls    the number of requests.get calls made
\*   raised   the exception that left do_GET, "none" if it returned
\*   outbound the requests.get calls made, in order
Requested(call, up) ==
  IF up.kind = "response"
  THEN [sent |-> <<RelayedResponse(up)>>, calls |-> 1, raised |-> "none",
        outbound |-> <<call>>]
  ELSE IF Caught(up)
  THEN [sent |-> <<ErrorResponse(up)>>, calls |-> 1, raised |-> "none",
        outbound |-> <<call>>]
  ELSE [sent |-> << >>, calls |-> 1, raised |-> up.kind,
        outbound |-> <<call>>]

\* lines 66-80, the forwarding of an admitted request: urlparse raises, or
\* the upstream call of the target is made
Forward(path, up) ==
  IF path \in RaisingPaths
  THEN [sent |-> << >>, calls |-> 0, raised |-> "ValueError",
        outbound |-> << >>]
  ELSE Requested(CallTable[path], up)

\* mutant: the return after the 429 is missing
AfterCheck_NoReturn(allowed, path, up) ==
  LET fwd == Forward(path, up)
  IN IF ~allowed
     THEN [sent |-> <<DeniedResponse>> \o fwd.sent, calls |-> fwd.calls,
           raised |-> fwd.raised, outbound |-> fwd.outbound]
     ELSE fwd

\* the handler once the admission check has been made: a denied request is
\* answered 429 and the handler returns, an admitted one is forwarded
AfterCheck(allowed, path, up) ==
  IF ~allowed
  THEN [sent |-> <<DeniedResponse>>, calls |-> 0, raised |-> "none",
        outbound |-> << >>]
  ELSE Forward(path, up)

\* what do_GET leaves behind: the cache as the check chk left it and what
\* the rest of the handler, out, did
Outcome(chk, out, up) ==
  [cache |-> chk.cache, allowed |-> chk.result, sent |-> out.sent,
   calls |-> out.calls, raised |-> out.raised, outbound |-> out.outbound,
   up |-> IF out.calls = 0 THEN NoUpstream ELSE up]

\* mutant: the slot of an admitted request is given back when its upstream
\* call fails
do_GET_RefundOnFailure(cache, limit, client_ip, current_time, path, up) ==
  LET chk == IsWithinRateLimit(cache, client_ip, current_time, limit)
  IN Outcome([cache |-> IF chk.result /\ up.kind = "RequestException"
                        THEN cache ELSE chk.cache,
              result |-> chk.result],
             AfterCheck(chk.result, path, up), up)

\* do_GET for one request: the cache after it and what the client saw
do_GET(cache, limit, client_ip, current_time, path, up) ==
  LET chk == IsWithinRateLimit(cache, client_ip, current_time, limit)
  IN Outcome(chk, AfterCheck(chk.result, path, up), up)

\* ------------------------------------------------------------------ state
VARIABLES
  services,            \* the RateLimitedProxyService instances that run
  rate_limit_per_sec,  \* per service: the configured limit, in LimitDen-ths
  rate_limit_cache,    \* per handler class: client_ip -> list of timestamps
  now,                 \* the clock read by time.time()
  admitted,            \* per service and client_ip: times of the True checks
  alone,               \* per service and client_ip: the cache of a limiter
                       \*   that is given the requests of that client only
  nreq,                \* per service: number of requests handled so far
  last,                \* per service: the latest request and its outcome
  worker,              \* per concurrent caller of the check: where it stands
  seen,                \* per service: the clients whose requests were checked
  running,             \* per service: self.running
  thread,              \* per service: where the thread in run() stands
  inbox                \* per service: connections waiting to be accepted

vars == <<services, rate_limit_per_sec, rate_limit_cache, now, admitted,
          alone, nreq, last, worker, seen, running, thread, inbox>>

NoRequest ==
  [key |-> "none", time |-> 0, before |-> << >>, allowed |-> FALSE,
   alone |-> FALSE, sent |-> << >>, calls |-> 0, raised |-> "none",
   up |-> NoUpstream, target |-> << >>, outbound |-> << >>]

IdleWorker == [pc |-> "idle", client_ip |-> "none", current_time |-> 0,
               tmp |-> << >>]

\* the state right after the services of svc were constructed with the
\* limits lims[s], before any request
InitWith(svc, lims) ==
  /\ services = svc
  /\ rate_limit_per_sec = lims
  /\ rate_limit_cache = [s \in svc |-> << >>]
  /\ now = 0
  /\ admitted = [s \in svc |-> [k \in Keys |-> << >>]]
  /\ alone = [s \in svc |-> [k \in Keys |-> << >>]]
  /\ nreq = [s \in svc |-> 0]
  /\ last = [s \in svc |-> NoRequest]
  /\ worker = [w \in Workers |-> IdleWorker]
  /\ seen = [s \in svc |-> {}]
  /\ running = [s \in svc |-> TRUE]
  /\ thread = [s \in svc |-> "loop"]
  /\ inbox = [s \in svc |-> 0]

\* one service, any configured limit
Init == \E lims \in [{1} -> Limits] : InitWith({1}, lims)

\* mutant: one handler class, and so one cache, for all the services
HandlerClass_Shared(s) == 1

\* _create_request_handler defines a new class CustomRequestHandler, with a
\* new rate_limit_cache, each time it is called: one per service
HandlerClass(s) == s

\* what service s holds once do_GET returned r for GET path from client_ip
\* at time t, a being the same check made by a limiter that sees this
\* client only
Held(s, client_ip, t, path, r, a) ==
  [cache |-> r.cache,
   admitted |-> [admitted[s] EXCEPT ![client_ip] =
                   IF r.allowed THEN Append(@, t) ELSE @],
   alone |-> [alone[s] EXCEPT ![client_ip] = a.cache],
   last |-> [key |-> client_ip, time |-> t,
             before |-> CacheGet(rate_limit_cache[HandlerClass(s)], client_ip),
             allowed |-> r.allowed, alone |-> a.result, sent |-> r.sent,
             calls |-> r.calls, raised |-> r.raised, up |-> r.up,
             target |-> path, outbound |-> r.outbound]]

\* what service s holds after it handled GET path from client_ip at time t,
\* the upstream call, if one is made, ending as up
Handle(s, client_ip, t, path, up) ==
  Held(s, client_ip, t, path,
       do_GET(rate_limit_cache[HandlerClass(s)], rate_limit_per_sec[s],
              client_ip, t, path, up),
       IsWithinRateLimit(alone[s][client_ip], client_ip, t,
                         rate_limit_per_sec[s]))

\* every service of the set S handles the same request at time t
Serve(S, client_ip, t, path, up) ==
  /\ \A s \in S : nreq[s] < MaxReqs
  /\ t >= now
  /\ now' = t
  /\ \E h \in {[s \in S |-> Handle(s, client_ip, t, path, up)]} :
       /\ rate_limit_cache' =
            [c \in services |->
               IF \E s \in S : HandlerClass(s) = c
               THEN h[CHOOSE s \in S : HandlerClass(s) = c].cache
               ELSE rate_limit_cache[c]]
       /\ admitted' =
            [s \in services |-> IF s \in S THEN h[s].admitted ELSE admitted[s]]
       /\ alone' =
            [s \in services |-> IF s \in S THEN h[s].alone ELSE alone[s]]
       /\ last' =
            [s \in services |-> IF s \in S THEN h[s].last ELSE last[s]]
  /\ nreq' = [s \in services |-> IF s \in S THEN nreq[s] + 1 ELSE nreq[s]]
  /\ seen' = [s \in services |-> IF s \in S THEN seen[s] \cup {client_ip}
                                 ELSE seen[s]]
  /\ UNCHANGED <<services, rate_limit_per_sec, worker, running, thread, inbox>>

Allowed(s, client_ip, t) ==
  IsWithinRateLimit(rate_limit_cache[HandlerClass(s)], client_ip, t,
                    rate_limit_per_sec[s]).result

\* do_GET, the request is over the limit: 429, nothing forwarded
GetDenied ==
  \E s \in services, client_ip \in Keys, t \in Time, path \in Paths :
    /\ ~Allowed(s, client_ip, t)
    /\ Serve({s}, client_ip, t, path, NoUpstream)

\* do_GET, the request is admitted and urlparse raises on its target
GetParseError ==
  \E s \in services, client_ip \in Keys, t \in Time, path \in Paths :
    /\ Allowed(s, client_ip, t)
    /\ path \in RaisingPaths
    /\ Serve({s}, client_ip, t, path, NoUpstream)

\* do_GET, the request is admitted and the upstream answers
GetRelayed ==
  \E s \in services, client_ip \in Keys, t \in Time, path \in Paths,
     up \in UpstreamResponses :
    /\ Allowed(s, client_ip, t)
    /\ path \notin RaisingPaths
    /\ Serve({s}, client_ip, t, path, up)

\* the same with a query string in the target and with the other answers
GetRelayedWire ==
  \E s \in services, client_ip \in Keys, t \in Time, path \in Targets,
     up \in WireResponses :
    /\ Allowed(s, client_ip, t)
    /\ path \notin RaisingPaths
    /\ Serve({s}, client_ip, t, path, up)

\* do_GET, the request is admitted and the upstream call fails
GetFailed ==
  \E s \in services, client_ip \in Keys, t \in Time, path \in Paths,
     up \in UpstreamFailures :
    /\ Allowed(s, client_ip, t)
    /\ path \notin RaisingPaths
    /\ Serve({s}, client_ip, t, path, up)

Next ==
  \/ GetDenied
  \/ GetParseError
  \/ GetRelayed
  \/ GetFailed

\* requests handled one after another by one service
Spec == Init /\ [][Next]_vars

\* the same, the targets and the upstream answers in more detail
NextFwd ==
  \/ GetDenied
  \/ GetParseError
  \/ GetRelayedWire
  \/ GetFailed

SpecFwd == Init /\ [][NextFwd]_vars

\* ------------------------------------- two limiters fed the same requests
\* service 1 has any limit, service 2 the floor of that limit
InitPair ==
  \E lims \in [{1, 2} -> Limits] :
    /\ lims[2] = Floor(lims[1]) * LimitDen
    /\ InitWith({1, 2}, lims)

\* both services are sent the same request at the same time
PairGet ==
  \E client_ip \in Keys, t \in Time, path \in Paths, up \in UpstreamOutcomes :
    Serve(services, client_ip, t, path, up)

NextPair == PairGet

SpecPair == InitPair /\ [][NextPair]_vars

\* ------------------------- the check called by several workers at once
\* _is_within_rate_limit takes no lock; its statements are the steps
\*   prune-read  (86-88) evaluate the comprehension over cache[client_ip]
\*   prune-store (86)    cache[client_ip] = that list
\*   test        (91)    len(cache[client_ip]) >= rate_limit_per_sec
\*   append      (95)    cache[client_ip].append(current_time)
InitConc ==
  \E lims \in [{1} -> {l \in Limits : IsIntegral(l) /\ l > 0}] :
    InitWith({1}, lims)

WorkerStep(w, rec) ==
  /\ worker' = [worker EXCEPT ![w] = rec]
  /\ UNCHANGED <<services, rate_limit_per_sec, alone, last>>

\* a worker enters the check with the client's key and the time it read
CallStart ==
  \E s \in services, w \in Workers, client_ip \in Keys, t \in Time :
    /\ worker[w].pc = "idle"
    /\ nreq[s] < MaxReqs
    /\ t >= now
    /\ now' = t
    /\ nreq' = [nreq EXCEPT ![s] = @ + 1]
    /\ seen' = [seen EXCEPT ![s] = @ \cup {client_ip}]
    /\ WorkerStep(w, [pc |-> "prune", client_ip |-> client_ip,
                      current_time |-> t, tmp |-> << >>])
    /\ UNCHANGED <<rate_limit_cache, admitted, running, thread, inbox>>

PruneRead ==
  \E s \in services, w \in Workers :
    LET me == worker[w]
        window == CacheGet(rate_limit_cache[s], me.client_ip)
    IN /\ me.pc = "prune"
       /\ rate_limit_cache' =
            [rate_limit_cache EXCEPT ![s] = CacheSet(@, me.client_ip, window)]
       /\ WorkerStep(w, [me EXCEPT !.pc = "store",
                                   !.tmp = Prune(window, me.current_time)])
       /\ UNCHANGED <<now, nreq, admitted, seen, running, thread, inbox>>

PruneStore ==
  \E s \in services, w \in Workers :
    LET me == worker[w]
    IN /\ me.pc = "store"
       /\ rate_limit_cache' =
            [rate_limit_cache EXCEPT ![s] = CacheSet(@, me.client_ip, me.tmp)]
       /\ WorkerStep(w, [me EXCEPT !.pc = "test", !.tmp = << >>])
       /\ UNCHANGED <<now, nreq, admitted, seen, running, thread, inbox>>

\* the test finds the limit reached: return False
TestDenies ==
  \E s \in services, w \in Workers :
    LET me == worker[w]
    IN /\ me.pc = "test"
       /\ ExceedsLimit(CacheGet(rate_limit_cache[s], me.client_ip),
                       rate_limit_per_sec[s])
       /\ WorkerStep(w, IdleWorker)
       /\ UNCHANGED <<now, nreq, admitted, rate_limit_cache, seen, running,
                      thread, inbox>>

\* the test finds room: go on to the append
TestPasses ==
  \E s \in services, w \in Workers :
    LET me == worker[w]
    IN /\ me.pc = "test"
       /\ ~ExceedsLimit(CacheGet(rate_limit_cache[s], me.client_ip),
                        rate_limit_per_sec[s])
       /\ WorkerStep(w, [me EXCEPT !.pc = "append"])
       /\ UNCHANGED <<now, nreq, admitted, rate_limit_cache, seen, running,
                      thread, inbox>>

\* append current_time and return True
AppendNow ==
  \E s \in services, w \in Workers :
    LET me == worker[w]
    IN /\ me.pc = "append"
       /\ rate_limit_cache' =
            [rate_limit_cache EXCEPT ![s] =
               CacheSet(@, me.client_ip,
                        Append(CacheGet(@, me.client_ip), me.current_time))]
       /\ admitted' = [admitted EXCEPT ![s][me.client_ip] =
                         Append(@, me.current_time)]
       /\ WorkerStep(w, IdleWorker)
       /\ UNCHANGED <<now, nreq, seen, running, thread, inbox>>

NextConc ==
  \/ CallStart
  \/ PruneRead
  \/ PruneStore
  \/ TestDenies
  \/ TestPasses
  \/ AppendNow

SpecConc == InitConc /\ [][NextConc]_vars

\* ------------------------------------------- two services in one process
MaxTwoReqs == 3

\* two services with whole-number limits
InitTwo ==
  \E lims \in [{1, 2} -> {l \in Limits : IsIntegral(l) /\ l > 0}] :
    InitWith({1, 2}, lims)

\* one of the services is sent a request (one target, one upstream answer:
\* the forwarding does not read or write the cache)
TwoGet ==
  \E s \in services, client_ip \in Keys, t \in Time,
     up \in {u \in UpstreamResponses : u.status = 404} :
    /\ nreq[1] + nreq[2] < MaxTwoReqs
    /\ Serve({s}, client_ip, t, PathPlain, up)

NextTwo == TwoGet

SpecTwo == InitTwo /\ [][NextTwo]_vars

\* ------------------------------------------------- run() and stop()
\* the thread of run() is at
\*   "loop"    the test of while self.running (line 34)
\*   "wait"    inside httpd.handle_request(), no connection accepted yet
\*   "busy"    inside httpd.handle_request(), the handler at work
\*   "exited"  past the loop: "Proxy service stopped." (line 36)
MaxRunReqs == 3

InitRun == InitConc

\* mutant: the server hands each request to a thread of its own and
\* handle_request returns at once
ProcessRequest_Threaded(s) == "loop"

\* HTTPServer runs the handler in the thread that called handle_request
ProcessRequest(s) == "busy"

\* a client connects and sends a GET request
Arrive ==
  \E s \in services :
    /\ nreq[s] + inbox[s] < MaxRunReqs
    /\ inbox' = [inbox EXCEPT ![s] = @ + 1]
    /\ UNCHANGED <<services, rate_limit_per_sec, rate_limit_cache, now,
                   admitted, alone, nreq, last, worker, seen, running, thread>>

\* stop(): self.running = False
Stop ==
  \E s \in services :
    /\ running[s]
    /\ running' = [running EXCEPT ![s] = FALSE]
    /\ UNCHANGED <<services, rate_limit_per_sec, rate_limit_cache, now,
                   admitted, alone, nreq, last, worker, seen, thread, inbox>>

\* while self.running: enter handle_request, or leave the loop
LoopTest ==
  \E s \in services :
    /\ thread[s] = "loop"
    /\ thread' = [thread EXCEPT ![s] = IF running[s] THEN "wait" ELSE "exited"]
    /\ UNCHANGED <<services, rate_limit_per_sec, rate_limit_cache, now,
                   admitted, alone, nreq, last, worker, seen, running, inbox>>

\* handle_request accepts a waiting connection and do_GET starts on it
Accept ==
  \E s \in services, w \in Workers, client_ip \in Keys, t \in Time :
    /\ thread[s] = "wait"
    /\ inbox[s] > 0
    /\ worker[w].pc = "idle"
    /\ t >= now
    /\ now' = t
    /\ inbox' = [inbox EXCEPT ![s] = @ - 1]
    /\ nreq' = [nreq EXCEPT ![s] = @ + 1]
    /\ seen' = [seen EXCEPT ![s] = @ \cup {client_ip}]
    /\ thread' = [thread EXCEPT ![s] = ProcessRequest(s)]
    /\ WorkerStep(w, [pc |-> "prune", client_ip |-> client_ip,
                      current_time |-> t, tmp |-> << >>])
    /\ UNCHANGED <<rate_limit_cache, admitted, running>>

\* the handler is done and handle_request returns to the loop
Return ==
  \E s \in services :
    /\ thread[s] = "busy"
    /\ \A w \in Workers : worker[w].pc = "idle"
    /\ thread' = [thread EXCEPT ![s] = "loop"]
    /\ UNCHANGED <<services, rate_limit_per_sec, rate_limit_cache, now,
                   admitted, alone, nreq, last, worker, seen, running, inbox>>

NextRun ==
  \/ Arrive
  \/ Stop
  \/ LoopTest
  \/ Accept
  \/ PruneRead
  \/ PruneStore
  \/ TestDenies
  \/ TestPasses
  \/ AppendNow
  \/ Return

\* the thread of run() and the handler it runs keep going; nothing makes a
\* client connect or the owner call stop()
SpecRun ==
  /\ InitRun
  /\ [][NextRun]_vars
  /\ WF_vars(LoopTest)
  /\ WF_vars(Accept)
  /\ WF_vars(PruneRead)
  /\ WF_vars(PruneStore)
  /\ WF_vars(TestDenies)
  /\ WF_vars(TestPasses)
  /\ WF_vars(AppendNow)
  /\ WF_vars(Return)

\* ============================================================== claims
\* the admitted calls of client_ip at service s before its latest request
AdmittedBefore(s) ==
  LET all == admitted[s][last[s].key]
  IN IF last[s].allowed THEN SubSeq(all, 1, Len(all) - 1) ELSE all

\* the times u with end - 1.0 < u <= end
Trailing(end) == {u \in Time : end - TicksPerSec < u /\ u <= end}

Handled(s) == last[s].key # "none"

\* C1: for sequential checks at non-decreasing times, the number of admitted
\* checks of a key inside any trailing 1-second window (end - 1.0, end] never
\* exceeds floor(rateLimitPerSecond).
C1_WindowBound ==
  \A s \in services : \A k \in Keys : \A end \in Time :
    Count(admitted[s][k], Trailing(end)) <= Floor(rate_limit_per_sec[s])

\* C2: the check returns False exactly when the number of previously
\* admitted calls of the key with now - t < 1.0 is >= limit; otherwise it
\* returns True and records now.
C2_ExactAdmission ==
  \A s \in services : Handled(s) =>
    LET r == last[s]
        recent == Count(AdmittedBefore(s),
                        {u \in Time : r.time - u < TicksPerSec})
        stored == rate_limit_cache[s][r.key]
    IN /\ r.allowed = ~(recent * LimitDen >= rate_limit_per_sec[s])
       /\ r.allowed =>
            /\ stored # << >>
            /\ stored[Len(stored)] = r.time
            /\ Count(stored, {r.time}) = Count(r.before, {r.time}) + 1

\* scenario C: limit 2.0, three requests of one client at increasing times
\* inside one second: forward, forward, 429
C2_Witness ==
  \E s \in services :
    /\ rate_limit_per_sec[s] = 2 * LimitDen
    /\ nreq[s] = 3
    /\ ~last[s].allowed
    /\ last[s].sent # << >>
    /\ last[s].sent[1].status = 429
    /\ last[s].time < TicksPerSec
    /\ Len(admitted[s][last[s].key]) = 2
    /\ admitted[s][last[s].key][1] < admitted[s][last[s].key][2]
    /\ admitted[s][last[s].key][2] < last[s].time

\* C3: a denied check leaves the stored list of its key as it was, and the
\* same call repeated at the same timestamp is denied again.
C3_DeniedNoMutation ==
  \A s \in services : (Handled(s) /\ ~last[s].allowed) =>
    /\ last[s].key \in DOMAIN rate_limit_cache[s]
    /\ rate_limit_cache[s][last[s].key] = last[s].before
    /\ ~Allowed(s, last[s].key, last[s].time)

\* a denial at a time when the key's oldest admission is at least a second
\* old and a stored stamp is still fresh
C3_Witness ==
  \E s \in services :
    /\ Handled(s) /\ ~last[s].allowed
    /\ last[s].before # << >>
    /\ \E i \in 1..Len(admitted[s][last[s].key]) :
         last[s].time - admitted[s][last[s].key][i] >= TicksPerSec

\* C4: checks of one key made at the same instant by several workers admit
\* at most floor(limit) of them, and leave at most floor(limit) stamps of
\* that instant in the key's window.
C4_ConcurrentBound ==
  \A s \in services : \A k \in Keys : \A t \in Time :
    /\ Count(admitted[s][k], {t}) <= Floor(rate_limit_per_sec[s])
    /\ Count(CacheGet(rate_limit_cache[s], k), {t})
         <= Floor(rate_limit_per_sec[s])

\* C5: a check for one key leaves the windows of the other keys alone, and
\* each request gets the outcome it gets when its client is the only one.
C5_KeysIndependent ==
  \A s \in services :
    /\ \A k \in Keys :
         /\ (k \in DOMAIN rate_limit_cache[s]) = (k \in DOMAIN alone[s][k])
         /\ k \in DOMAIN rate_limit_cache[s] =>
              rate_limit_cache[s][k] = alone[s][k][k]
    /\ Handled(s) => last[s].allowed = last[s].alone

\* both clients have been admitted and denied at one service
C5_Witness ==
  \E s \in services :
    /\ \A k \in Keys : admitted[s][k] # << >>
    /\ Handled(s) /\ ~last[s].allowed
    /\ nreq[s] >= 4

\* C6: a limiter with limit 2.5 and one with limit 2, fed the same checks,
\* give the same result on every call, and admit at most 2 per second.
C6_FractionalAsFloor ==
  ( /\ services = {1, 2}
    /\ rate_limit_per_sec[1] = 2 * LimitDen + 1
    /\ rate_limit_per_sec[2] = 2 * LimitDen )
  => /\ last[1].allowed = last[2].allowed
     /\ \A s \in services : \A k \in Keys : \A end \in Time :
          Count(admitted[s][k], Trailing(end)) <= 2

\* C7: a call made when every earlier admitted call of the key is more than
\* 1.0 second old is admitted whenever limit > 0.
C7_ElapsedWindowAdmits ==
  \A s \in services :
    ( /\ Handled(s)
      /\ rate_limit_per_sec[s] > 0
      /\ AdmittedBefore(s) # << >>
      /\ \A i \in 1..Len(AdmittedBefore(s)) :
           last[s].time - AdmittedBefore(s)[i] > TicksPerSec )
    => last[s].allowed

\* scenario B: limit 1.0, a request and a second one more than a second later
C7_Witness ==
  \E s \in services :
    /\ rate_limit_per_sec[s] = LimitDen
    /\ nreq[s] = 2
    /\ Len(admitted[s][last[s].key]) = 2
    /\ admitted[s][last[s].key][2] - admitted[s][last[s].key][1] > TicksPerSec

\* C8: a denied request is answered with 429 and the fixed body, and no
\* upstream call is made for it.
C8_DeniedShortCircuit ==
  \A s \in services : (Handled(s) /\ ~last[s].allowed) =>
    /\ last[s].sent =
         << [status |-> 429, headers |-> << >>,
             body |-> <<"Rate limit exceeded. Please try again later.">>] >>
    /\ last[s].calls = 0
    /\ last[s].up = NoUpstream

C8_Witness ==
  \E s \in services :
    /\ Handled(s) /\ ~last[s].allowed
    /\ rate_limit_per_sec[s] > 0

\* C9: a transport failure of the upstream call of an admitted request is
\* answered with 500 and the body "Error forwarding request: " followed by
\* the failure description, and nothing else is sent.
C9_TransportFailure500 ==
  \A s \in services :
    (Handled(s) /\ last[s].up.kind = "RequestException") =>
      /\ last[s].allowed
      /\ last[s].raised = "none"
      /\ last[s].sent =
           << [status |-> 500, headers |-> << >>,
               body |-> <<"Error forwarding request: ", last[s].up.desc>>] >>

C9_Witness ==
  \E s \in services :
    /\ Handled(s)
    /\ last[s].up.kind = "RequestException"
    /\ last[s].up.desc = "Timeout"

\* C10: every handled GET request ends with exactly one complete response
\* (429, the relayed upstream response, or 500) and no exception leaves
\* do_GET.
C10_AlwaysOneResponse ==
  \A s \in services : Handled(s) =>
    /\ last[s].raised = "none"
    /\ Len(last[s].sent) = 1

\* C11: no retries. Every admitted GET request causes exactly one upstream
\* GET, made with the 5-second timeout, whether the call succeeds or fails;
\* a failed call is answered at once with the 500 response.
C11_OneUpstreamCall ==
  \A s \in services :
    (Handled(s) /\ last[s].allowed) =>
      /\ last[s].calls = 1
      /\ Len(last[s].outbound) = 1
      /\ \A i \in 1..Len(last[s].outbound) : last[s].outbound[i].timeout = 5
      /\ last[s].up.kind = "RequestException" =>
            (Len(last[s].sent) = 1 /\ last[s].sent[1].status = 500)

\* C12: on a successful upstream exchange the response sent to the client
\* has the upstream's status code, the upstream's header (name, value)
\* pairs verbatim, in the same order and with duplicates kept, and the
\* upstream's body bytes unmodified.
C12_RelayVerbatim ==
  \A s \in services :
    (Handled(s) /\ last[s].up.kind = "response") =>
      last[s].sent =
        << [status |-> last[s].up.status, headers |-> last[s].up.headers,
            body |-> <<last[s].up.body>>] >>

\* the (name, value) pairs of the query string of a request target as the
\* client wrote them, pairs with an empty value included
InboundPairs(target) ==
  LET pieces == SelectSeq(SplitOn(UrlQuery(target), "&"),
                          LAMBDA piece : HasChar(piece, "="))
  IN [i \in 1..Len(pieces) |-> <<PieceName(pieces[i]), PieceValue(pieces[i])>>]

\* the values of name in a sequence of (name, value) pairs, in order
ValuesOf(pairs, name) ==
  LET mine == SelectSeq(pairs, LAMBDA q : q[1] = name)
  IN [i \in 1..Len(mine) |-> mine[i][2]]

NamesOf(pairs) == {pairs[i][1] : i \in 1..Len(pairs)}

\* C13: for an admitted request the upstream target is the configured base
\* URL followed by the inbound path, and the query parameters sent upstream
\* are exactly the inbound ones: every inbound (name, value) pair, pairs
\* with an empty value included, is sent, none is added, and the values of
\* each name keep their order.
C13_TargetAndParams ==
  \A s \in services :
    (Handled(s) /\ last[s].allowed /\ last[s].calls = 1) =>
      /\ last[s].outbound[1].url =
           <<"http://example.com">> \o UrlPath(last[s].target)
      /\ \A name \in NamesOf(InboundPairs(last[s].target))
                     \cup NamesOf(last[s].outbound[1].params) :
           ValuesOf(last[s].outbound[1].params, name) =
             ValuesOf(InboundPairs(last[s].target), name)

\* C14: in every reachable state of sequential calls at non-decreasing times
\* the length of each key's stored list of timestamps never exceeds
\* floor(rateLimitPerSecond).
C14_StoredLengthBound ==
  \A s \in services : \A k \in DOMAIN rate_limit_cache[s] :
    Len(rate_limit_cache[s][k]) <= Floor(rate_limit_per_sec[s])

\* C15: right after any admission check of key k at time now, allowed or
\* denied, every timestamp t stored for k has now - t < 1.0; a timestamp
\* exactly 1.0 second old is removed by the prune and does not count against
\* the request that arrives exactly one second after it.
C15_PrunedAfterCheck ==
  \A s \in services : Handled(s) =>
    /\ last[s].key \in DOMAIN rate_limit_cache[s]
    /\ \A i \in 1..Len(rate_limit_cache[s][last[s].key]) :
         last[s].time - rate_limit_cache[s][last[s].key][i] < TicksPerSec
    /\ ( /\ rate_limit_per_sec[s] > 0
         /\ \A i \in 1..Len(last[s].before) :
              last[s].time - last[s].before[i] >= TicksPerSec )
       => last[s].allowed

\* limit 1.0: a request exactly one second after the stored one is admitted
C15_Witness ==
  \E s \in services :
    /\ Handled(s)
    /\ rate_limit_per_sec[s] = LimitDen
    /\ last[s].before = <<last[s].time - TicksPerSec>>
    /\ last[s].allowed
    /\ rate_limit_cache[s][last[s].key] = <<last[s].time>>

\* C18: an admitted request takes its slot in the client's window before the
\* upstream call and keeps it whatever the outcome: its timestamp is stored
\* also when the upstream call fails (500), so with limit 1.0 a second
\* request of the same client within one second of a failed forward is
\* denied.
C18_SlotKeptOnFailure ==
  \A s \in services :
    (Handled(s) /\ last[s].allowed) =>
      /\ last[s].key \in DOMAIN rate_limit_cache[s]
      /\ rate_limit_cache[s][last[s].key] # << >>
      /\ rate_limit_cache[s][last[s].key]
           [Len(rate_limit_cache[s][last[s].key])] = last[s].time
      /\ (rate_limit_per_sec[s] = LimitDen /\ last[s].up.kind # "response") =>
           \A t \in Time :
             (t >= now /\ t - last[s].time < TicksPerSec) =>
               ~Allowed(s, last[s].key, t)

\* limit 1.0: the upstream call of an admitted request failed, 500 was sent
C18_Witness ==
  \E s \in services :
    /\ Handled(s)
    /\ rate_limit_per_sec[s] = LimitDen
    /\ last[s].allowed
    /\ last[s].up.kind = "RequestException"
    /\ Len(last[s].sent) = 1
    /\ last[s].sent[1].status = 500
    /\ now + 1 \in Time

\* C16: entries of the rate-limit state are created lazily and never
\* evicted: a key has no entry before its first request, gets one on its
\* first admission check, also when that check is denied, and stays in the
\* mapping in every later state, even with an empty list.
C16_LazyNeverEvicted ==
  \A s \in services : DOMAIN rate_limit_cache[s] = seen[s]

\* after a denied first check a client has an entry with an empty list, the
\* client that sent nothing has none, and later requests were handled
C16_Witness ==
  \E s \in services : \E k \in Keys :
    /\ k \in DOMAIN rate_limit_cache[s]
    /\ rate_limit_cache[s][k] = << >>
    /\ admitted[s][k] = << >>
    /\ Keys \ DOMAIN rate_limit_cache[s] # {}
    /\ nreq[s] >= 2

\* C20: the rate-limit state is shared by all the requests of one service
\* instance and is not shared between instances: what a request finds
\* stored for its client is what the earlier requests to the same instance
\* left there, and a client's requests to one instance never change the
\* outcome of its requests to the other.
C20_OneCachePerService ==
  \A s \in services : Handled(s) =>
    /\ SelectSeq(last[s].before,
                 LAMBDA t : last[s].time - t < TicksPerSec)
         = SelectSeq(AdmittedBefore(s),
                     LAMBDA t : last[s].time - t < TicksPerSec)
    /\ last[s].allowed = last[s].alone

\* two services with limit 1.0 got requests of one client at the same
\* time: two at service 1, the second denied, then one at service 2, admitted
C20_Witness ==
  /\ services = {1, 2}
  /\ rate_limit_per_sec[1] = LimitDen
  /\ rate_limit_per_sec[2] = LimitDen
  /\ nreq[1] = 2
  /\ nreq[2] = 1
  /\ last[1].key = last[2].key
  /\ last[1].time = last[2].time
  /\ ~last[1].allowed
  /\ last[1].before = <<last[1].time>>
  /\ last[2].allowed

\* C17: stop() stops the proxy service: once stop() has been called on a
\* running service, the loop of run() eventually exits and the thread
\* reaches "Proxy service stopped.", whether or not a further request
\* arrives.
C17_StopEndsRun == (~running[1]) ~> (thread[1] = "exited")

\* the handlers that are inside do_GET
InProgress == {w \in Workers : worker[w].pc # "idle"}

\* C19: within one service instance requests are handled strictly one at a
\* time: run() handles a request to completion before it accepts the next,
\* so at no time are two admission checks of the service in progress and
\* the prune, test and append steps of two requests never interleave.
C19_OneRequestAtATime ==
  /\ Cardinality(InProgress) <= 1
  /\ \A s \in services : InProgress # {} => thread[s] = "busy"

\* a request is between its prune and its test while the next one has
\* already connected
C19_Witness ==
  \E s \in services : \E w \in Workers :
    /\ worker[w].pc = "store"
    /\ inbox[s] > 0
    /\ nreq[s] >= 2

====
